---- MODULE Spec2Model ----
(***************************************************************************)
(* A state-machine model of the AI coding tutor (src/app.py): the account  *)
(* store, the progress store, the quiz adapter and the Streamlit session.  *)
(*                                                                         *)
(* One step of the model is one run of the Streamlit script: the widget    *)
(* the user triggered, everything the script executes from the top down to *)
(* the end of the page or to the st.rerun() that cuts the run short.  A    *)
(* run ended by st.rerun() leaves pc = "rerun", and the only step then     *)
(* possible is the follow-up run without a widget event.                   *)
(***************************************************************************)
EXTENDS Integers, Sequences, FiniteSets, TLC

(* ------------------------------ bounds -------------------------------- *)

\* rows the user_progress table may hold before the model stops appending
MaxProgress == 3
\* successful logins (ticks of CURRENT_TIMESTAMP) the model follows
MaxClock == 2
\* browser sessions registering concurrently in SpecConc
MaxClients == 2

(* -------------------------- program constants ------------------------- *)

NumQuestions == 8
NumOptions == 4
PassMark == 5
ProgressMark == 5
ShowLast == 5
MinPasswordLen == 6

(* ------------------------------ inputs -------------------------------- *)

\* Text is a sequence of one-character strings.
Letters == {"a", "b", "c", "o", "x"}
Digits == {"1"}
LocalChars == Letters \cup Digits \cup {".", "_", "%", "+", "-"}
DomainChars == Letters \cup Digits \cup {".", "-"}

EmailA == <<"a", "@", "x", ".", "c", "o">>
EmailB == <<"b", "@", "x", ".", "c", "o">>
EmailNoTld == <<"a", "@", "x">>

PwA == <<"s", "e", "c", "r", "e", "t">>
PwB == <<"S", "e", "c", "r", "e", "t">>
PwShort == <<"a", "b", "c">>

\* what the user may type into the login form
LoginForms ==
    {[email |-> e, password |-> p] : e \in {EmailA, EmailB}, p \in {PwA, PwB}}
    \cup {[email |-> <<>>, password |-> PwA],
          [email |-> EmailA, password |-> <<>>],
          [email |-> EmailNoTld, password |-> PwA]}

\* what the user may type into the registration form (st.number_input
\* keeps the age within 8..100)
RegisterForms ==
    {[email |-> EmailA, password |-> PwA, confirm |-> PwA, age |-> 16],
     [email |-> EmailB, password |-> PwB, confirm |-> PwB, age |-> 30],
     [email |-> <<>>, password |-> PwA, confirm |-> PwA, age |-> 16],
     [email |-> EmailA, password |-> PwA, confirm |-> <<>>, age |-> 16],
     [email |-> EmailNoTld, password |-> PwA, confirm |-> PwA, age |-> 16],
     [email |-> EmailA, password |-> PwShort, confirm |-> PwShort, age |-> 16],
     [email |-> EmailA, password |-> PwA, confirm |-> PwB, age |-> 16]}

\* the salts bcrypt.gensalt() may draw
Salts == {"s1", "s2"}
Topics == {"Loops"}
QuestionInputs == {"", "why?"}
\* the positions of the radio options the modelled user chooses among
PickOptions == {1, 2}
\* how many leading questions get the first of the two options chosen
SplitPoints == {0, 1, 4}

(* ---------------------------- pure helpers ---------------------------- *)

\* src/app.py:243-246.  The regular expression
\*   ^[a-zA-Z0-9._%+-]+@[a-zA-Z0-9.-]+\.[a-zA-Z]{2,}$
\* matched by choosing the position of the "@" and of the last dot.
validate_email(email) ==
    \E at \in 1..Len(email), dot \in 1..Len(email) :
        /\ at > 1
        /\ email[at] = "@"
        /\ \A i \in 1..(at - 1) : email[i] \in LocalChars
        /\ dot > at + 1
        /\ email[dot] = "."
        /\ \A i \in (at + 1)..(dot - 1) : email[i] \in DomainChars
        /\ Len(email) - dot >= 2
        /\ \A i \in (dot + 1)..Len(email) : email[i] \in Letters

\* bcrypt: the digest is a one-way function of salt and password, and the
\* stored value carries its salt (src/app.py:59-62).
BcryptDigest(salt, password) == <<salt>> \o password

hash_password_secure(password, salt) ==
    [salt |-> salt, digest |-> BcryptDigest(salt, password)]

\* a verify that accepts any password for an existing account
verify_password_any(password, hashed) == TRUE

\* bcrypt.checkpw re-hashes the password under the stored salt and compares
\* (src/app.py:64-66).
verify_password(password, hashed) ==
    BcryptDigest(hashed.salt, password) = hashed.digest

(* --------------------------- account store ---------------------------- *)

\* users is the users table in insertion order; AUTOINCREMENT makes the id
\* of a row its position.  last_login = 0 is NULL.
NoUser == [id |-> 0, email |-> <<>>, age |-> 0]

\* a table without the UNIQUE constraint on email
UniqueViolationNever(table, email) == FALSE

\* email TEXT UNIQUE NOT NULL (src/app.py:36): the INSERT raises
\* IntegrityError when a row already holds the email.
UniqueViolation(table, email) ==
    \E i \in 1..Len(table) : table[i].email = email

\* src/app.py:68-86; user_id = 0 is the None of the except branch.
create_user(table, email, password, age, salt) ==
    IF UniqueViolation(table, email)
    THEN [users |-> table, user_id |-> 0]
    ELSE [users |-> Append(table,
                      [id |-> Len(table) + 1,
                       email |-> email,
                       password_hash |-> hash_password_secure(password, salt),
                       age |-> age,
                       last_login |-> 0]),
          user_id |-> Len(table) + 1]

\* cursor.fetchone() of SELECT ... WHERE email = ? : the first matching row,
\* 0 when there is none.
FetchByEmail(table, email) ==
    IF \E i \in 1..Len(table) : table[i].email = email
    THEN CHOOSE i \in 1..Len(table) :
            /\ table[i].email = email
            /\ \A j \in 1..(i - 1) : table[j].email # email
    ELSE 0

\* an authenticate that returns the age of the first row of the table
authenticate_user_first_age(table, email, password, now) ==
    LET r == FetchByEmail(table, email) IN
    IF r # 0 /\ verify_password(password, table[r].password_hash)
    THEN [users |-> [table EXCEPT ![r].last_login = now],
          user |-> [id |-> table[r].id, email |-> email, age |-> table[1].age]]
    ELSE [users |-> table, user |-> NoUser]

\* src/app.py:88-115; user = NoUser is the None of line 113.
authenticate_user(table, email, password, now) ==
    LET r == FetchByEmail(table, email) IN
    IF r # 0 /\ verify_password(password, table[r].password_hash)
    THEN [users |-> [table EXCEPT ![r].last_login = now],
          user |-> [id |-> table[r].id, email |-> email, age |-> table[r].age]]
    ELSE [users |-> table, user |-> NoUser]

(* --------------------------- progress store --------------------------- *)

\* src/app.py:117-129: one INSERT into user_progress.
save_user_progress(table, user_id, topic, score) ==
    Append(table, [user_id |-> user_id, topic |-> topic, quiz_score |-> score])

RECURSIVE RowsOf(_, _)
\* the rows of one account, newest first
RowsOf(table, user_id) ==
    IF table = <<>> THEN <<>>
    ELSE LET last == table[Len(table)]
             rest == RowsOf(SubSeq(table, 1, Len(table) - 1), user_id)
         IN IF last.user_id = user_id THEN <<last>> \o rest ELSE rest

\* src/app.py:131-143.  completed_at is the insertion time, so ORDER BY
\* completed_at DESC is the reverse of the insertion order.
get_user_progress(table, user_id) == RowsOf(table, user_id)

(* ---------------------------- quiz adapter ---------------------------- *)

\* A response text is a sequence of tokens: the Markdown fence, the word
\* "json", a blank " ", prose "x", and one token per JSON document.
Fence == "<fence>"
JsonTokens == {"J_ok", "J_short", "J_nokey", "J_array", "J_empty"}

Item(q, opts, c) ==
    [question |-> q, options |-> opts, correct |-> c, explanation |-> "because"]

QuestionText == <<"Q1", "Q2", "Q3", "Q4", "Q5", "Q6", "Q7", "Q8">>
FourOptions == <<"A) one", "B) two", "C) three", "D) four">>

\* the quiz the prompt asks for (src/app.py:375-397): NumQuestions items of
\* NumOptions options, here with the correct indices 0,0,0,0,1,1,1,1
QuizOk ==
    [i \in 1..NumQuestions |->
        Item(QuestionText[i], FourOptions, IF 2 * i <= NumQuestions THEN 0 ELSE 1)]

\* a JSON document of the right keys and types but one item of two options
QuizShort == <<Item("Q1", <<"A) one", "B) two">>, 1)>>

\* the value json.loads gives for a JSON token
JsonOf(tok) ==
    CASE tok = "J_ok"    -> [type |-> "object", has_questions |-> TRUE,  questions |-> QuizOk]
      [] tok = "J_short" -> [type |-> "object", has_questions |-> TRUE,  questions |-> QuizShort]
      [] tok = "J_empty" -> [type |-> "object", has_questions |-> TRUE,  questions |-> <<>>]
      [] tok = "J_nokey" -> [type |-> "object", has_questions |-> FALSE, questions |-> <<>>]
      [] OTHER           -> [type |-> "array",  has_questions |-> FALSE, questions |-> <<>>]

\* what the backend may do: raise, or return a text.  Every document among
\* the inputs has items of the four keys with a list of options and a
\* correct index inside it; a document without them makes the quiz views
\* raise and is not followed here.
Responses ==
    {[raised |-> TRUE, content |-> <<>>]} \cup
    {[raised |-> FALSE, content |-> c] : c \in
        {<<"J_ok">>,
         <<Fence, "json", " ", "J_ok", " ", Fence>>,
         <<Fence, " ", "J_ok", " ", Fence>>,
         <<Fence, "json", " ", "J_ok">>,
         <<"x", " ", "J_ok">>,
         <<" ", "J_short", " ">>,
         <<"J_nokey">>,
         <<"J_array">>,
         <<"J_empty">>}}

RECURSIVE Strip(_)
\* str.strip(): blanks removed at both ends
Strip(t) ==
    IF t = <<>> THEN t
    ELSE IF Head(t) = " " THEN Strip(Tail(t))
    ELSE IF t[Len(t)] = " " THEN Strip(SubSeq(t, 1, Len(t) - 1))
    ELSE t

\* str.find(tok, start): the 0-based position of the first tok at or after
\* start, -1 when there is none
Find(t, tok, start) ==
    IF \E p \in start..(Len(t) - 1) : t[p + 1] = tok
    THEN CHOOSE p \in start..(Len(t) - 1) :
            /\ t[p + 1] = tok
            /\ \A q \in start..(p - 1) : t[q + 1] # tok
    ELSE -1

\* str.find of the fence followed by "json"
FindFenceJson(t) ==
    IF \E p \in 0..(Len(t) - 2) : t[p + 1] = Fence /\ t[p + 2] = "json"
    THEN CHOOSE p \in 0..(Len(t) - 2) :
            /\ t[p + 1] = Fence /\ t[p + 2] = "json"
            /\ \A q \in 0..(p - 1) : ~(t[q + 1] = Fence /\ t[q + 2] = "json")
    ELSE -1

\* t[a:b] of Python, for a >= 0 and b >= -1
PySlice(t, a, b) ==
    SubSeq(t, a + 1, IF b < 0 THEN Len(t) + b ELSE b)

\* response_text[json_start:json_end].strip() with json_end the next fence
\* (src/app.py:412-413 and 416-417)
SliceToFence(text, json_start) ==
    Strip(PySlice(text, json_start, Find(text, Fence, json_start)))

\* src/app.py:410-417 on the stripped text
Unfence(text) ==
    IF FindFenceJson(text) # -1
    THEN SliceToFence(text, FindFenceJson(text) + 2)
    ELSE IF Find(text, Fence, 0) # -1
    THEN SliceToFence(text, Find(text, Fence, 0) + 1)
    ELSE text

\* src/app.py:407-417
ExtractJson(content) == Unfence(Strip(content))

\* json.loads accepts one document with blanks around it
Decodes(text) == Len(Strip(text)) = 1 /\ Strip(text)[1] \in JsonTokens

ErrParse == "Error parsing quiz JSON"
ErrRaw == "Raw response"
ErrGenerate == "Error generating quiz"

\* src/app.py:420 and 425-427: quiz_data["questions"] raises on a value
\* that is no object or has no such key
QuestionsOf(quiz_data) ==
    IF quiz_data.type # "object" \/ ~quiz_data.has_questions
    THEN [questions |-> <<>>, errors |-> <<ErrGenerate>>]
    ELSE [questions |-> quiz_data.questions, errors |-> <<>>]

\* src/app.py:419-424
LoadQuiz(response_text) ==
    IF ~Decodes(response_text)
    THEN [questions |-> <<>>, errors |-> <<ErrParse, ErrRaw>>]
    ELSE QuestionsOf(JsonOf(Strip(response_text)[1]))

\* src/app.py:399-427: the questions returned and the st.error messages
generate_quiz(response) ==
    IF response.raised
    THEN [questions |-> <<>>, errors |-> <<ErrGenerate>>]
    ELSE LoadQuiz(ExtractJson(response.content))

\* the lesson backend returns a text, possibly empty.  A call that raises
\* yields the error text below, a non-empty lesson like any other, and is
\* left out of the inputs.
LessonResponses ==
    {[raised |-> FALSE, content |-> "lesson"],
     [raised |-> FALSE, content |-> ""]}

\* a topic button or a custom topic with the backend's answer; an empty
\* custom topic starts nothing, so the backend is not reached
LessonForms ==
    {[topic |-> t, lesson |-> l] : t \in Topics, l \in LessonResponses}
    \cup {[topic |-> "", lesson |-> [raised |-> FALSE, content |-> ""]]}

\* src/app.py:360-369
generate_lesson(response) ==
    IF response.raised THEN "Error generating lesson" ELSE response.content

(* ------------------------------ grading ------------------------------- *)

\* quiz_answers.get(i, "") (src/app.py:595)
AnswerGet(answers, i) == IF i \in DOMAIN answers THEN answers[i] ELSE ""

RECURSIVE CountFirst(_, _, _)
\* a count that compares every answer with the first option
CountFirst(questions, answers, n) ==
    IF n = 0 THEN 0
    ELSE CountFirst(questions, answers, n - 1)
         + (IF AnswerGet(answers, n) = questions[n].options[1] THEN 1 ELSE 0)

RECURSIVE CountCorrect(_, _, _)
\* the loop of src/app.py:593-603 over the first n questions
CountCorrect(questions, answers, n) ==
    IF n = 0 THEN 0
    ELSE LET q == questions[n]
             user_answer == AnswerGet(answers, n)
             correct_option == q.options[q.correct + 1]
         IN CountCorrect(questions, answers, n - 1)
            + (IF user_answer = correct_option THEN 1 ELSE 0)

\* a verdict that needs more than PassMark
FinalResultStrict(correct_count) ==
    IF correct_count > PassMark THEN "mastered" ELSE "needs review"

\* src/app.py:615-619
FinalResult(correct_count) ==
    IF correct_count >= PassMark THEN "mastered" ELSE "needs review"

\* src/app.py:321
score_color(score) == IF score >= ProgressMark THEN "green" ELSE "yellow"

(* --------------------------- session state --------------------------- *)

\* the None of st.session_state.current_lesson
NoLesson == "<None>"

\* "if not st.session_state.current_lesson": None and "" are both falsy
Truthy(lesson) == lesson # NoLesson /\ lesson # ""

\* "'id' in st.session_state.user_data"
HasId(user_data) == user_data.id # 0

\* src/app.py:228-241
InitialSession ==
    [logged_in |-> FALSE,
     user_data |-> NoUser,
     current_lesson |-> NoLesson,
     quiz_questions |-> <<>>,
     quiz_answers |-> <<>>,
     quiz_submitted |-> FALSE,
     lesson_topic |-> ""]

\* what one run of the script shows and calls
BlankOut(view) ==
    [view |-> view, msgs |-> <<>>, calls |-> <<>>, user_id |-> 0,
     score |-> -1, verdict |-> "", history |-> <<>>]

\* the outcome of one run of the script
Result(ss, utable, ptable, now, o, rerun) ==
    [ss |-> ss, users |-> utable, progress |-> ptable, now |-> now,
     out |-> o, rerun |-> rerun]

MsgFill == "Please fill in all fields!"
MsgEmail == "Please enter a valid email address!"
MsgInvalid == "Invalid email or password!"
MsgLoginOk == "Login successful!"
MsgShort == "Password must be at least 6 characters long!"
MsgMismatch == "Passwords don't match!"
MsgCreated == "Account created successfully! Please login."
MsgExists == "Email already exists! Please use a different email."

\* the output of a run of the login page that showed one message
Message(msg) == [BlankOut("login") EXCEPT !.msgs = <<msg>>]

\* src/app.py:275-281: what the page does with authenticate_user's result a
LoginOutcome(ss, ptable, now, a) ==
    IF a.user # NoUser
    THEN Result([ss EXCEPT !.logged_in = TRUE, !.user_data = a.user],
                a.users, ptable, now + 1,
                [Message(MsgLoginOk) EXCEPT !.calls = <<"authenticate_user">>,
                                            !.user_id = a.user.id],
                TRUE)
    ELSE Result(ss, a.users, ptable, now,
                [Message(MsgInvalid) EXCEPT !.calls = <<"authenticate_user">>],
                FALSE)

\* src/app.py:268-281, the handler of the login form
login_form(ss, utable, ptable, now, ev) ==
    IF ev.email = <<>> \/ ev.password = <<>>
    THEN Result(ss, utable, ptable, now, Message(MsgFill), FALSE)
    ELSE IF ~validate_email(ev.email)
    THEN Result(ss, utable, ptable, now, Message(MsgEmail), FALSE)
    ELSE LoginOutcome(ss, ptable, now,
                      authenticate_user(utable, ev.email, ev.password, now))

\* src/app.py:304-307: what the page does with create_user's result c
RegisterOutcome(ss, ptable, now, c) ==
    Result(ss, c.users, ptable, now,
           [Message(IF c.user_id # 0 THEN MsgCreated ELSE MsgExists) EXCEPT
               !.calls = <<"create_user">>,
               !.user_id = c.user_id],
           FALSE)

\* a registration handler that checks neither the length of the password nor
\* its confirmation before it calls create_user
register_form_unchecked(ss, utable, ptable, now, ev) ==
    IF ev.email = <<>> \/ ev.password = <<>> \/ ev.confirm = <<>>
    THEN Result(ss, utable, ptable, now, Message(MsgFill), FALSE)
    ELSE IF ~validate_email(ev.email)
    THEN Result(ss, utable, ptable, now, Message(MsgEmail), FALSE)
    ELSE RegisterOutcome(ss, ptable, now,
             create_user(utable, ev.email, ev.password, ev.age, ev.salt))

\* src/app.py:293-307, the handler of the registration form
register_form(ss, utable, ptable, now, ev) ==
    IF ev.email = <<>> \/ ev.password = <<>> \/ ev.confirm = <<>>
    THEN Result(ss, utable, ptable, now, Message(MsgFill), FALSE)
    ELSE IF ~validate_email(ev.email)
    THEN Result(ss, utable, ptable, now, Message(MsgEmail), FALSE)
    ELSE IF Len(ev.password) < MinPasswordLen
    THEN Result(ss, utable, ptable, now, Message(MsgShort), FALSE)
    ELSE IF ev.password # ev.confirm
    THEN Result(ss, utable, ptable, now, Message(MsgMismatch), FALSE)
    ELSE RegisterOutcome(ss, ptable, now,
             create_user(utable, ev.email, ev.password, ev.age, ev.salt))

\* src/app.py:248-309
login_page(ss, utable, ptable, now, ev) ==
    IF ev.widget = "login" THEN login_form(ss, utable, ptable, now, ev)
    ELSE IF ev.widget = "register" THEN register_form(ss, utable, ptable, now, ev)
    ELSE Result(ss, utable, ptable, now, BlankOut("login"), FALSE)

\* src/app.py:311-324: the rows shown, each with its mark
display_user_progress(ss, ptable) ==
    IF HasId(ss.user_data)
    THEN LET progress == get_user_progress(ptable, ss.user_data.id)
             shown == SubSeq(progress, 1,
                             IF Len(progress) < ShowLast THEN Len(progress)
                             ELSE ShowLast)
         IN [i \in 1..Len(shown) |->
                [topic |-> shown[i].topic,
                 score |-> shown[i].quiz_score,
                 mark |-> score_color(shown[i].quiz_score)]]
    ELSE <<>>

\* src/app.py:495-507 without the final st.rerun()
start_lesson(ss, topic, lesson_content) ==
    [ss EXCEPT !.lesson_topic = topic,
               !.current_lesson = lesson_content,
               !.quiz_questions = <<>>,
               !.quiz_answers = <<>>,
               !.quiz_submitted = FALSE]

\* src/app.py:473-493: the topic buttons, below the history shown as o
TopicButtons(ss, utable, ptable, now, ev, o) ==
    IF ev.widget = "start_lesson" /\ ev.topic # ""
    THEN Result(start_lesson(ss, ev.topic, generate_lesson(ev.lesson)),
                utable, ptable, now,
                [o EXCEPT !.calls = @ \o <<"generate_lesson">>], TRUE)
    ELSE Result(ss, utable, ptable, now, o, FALSE)

\* src/app.py:456-493
topic_selection_page(ss, utable, ptable, now, ev) ==
    TopicButtons(ss, utable, ptable, now, ev,
        [BlankOut("topics") EXCEPT
            !.history = display_user_progress(ss, ptable),
            !.calls = IF HasId(ss.user_data) THEN <<"get_user_progress">>
                      ELSE <<>>])

\* a retake that also drops the questions
retake_quiz_drop(ss) ==
    [ss EXCEPT !.quiz_submitted = FALSE, !.quiz_answers = <<>>,
               !.quiz_questions = <<>>]

\* src/app.py:623-626 without the st.rerun()
retake_quiz(ss) ==
    [ss EXCEPT !.quiz_submitted = FALSE, !.quiz_answers = <<>>]

\* src/app.py:629-635 without the st.rerun()
new_topic(ss) ==
    [ss EXCEPT !.current_lesson = NoLesson,
               !.lesson_topic = "",
               !.quiz_questions = <<>>,
               !.quiz_answers = <<>>,
               !.quiz_submitted = FALSE]

\* src/app.py:552-555 without the st.rerun()
choose_new_topic(ss) ==
    [ss EXCEPT !.current_lesson = NoLesson, !.lesson_topic = ""]

\* a logout that also discards the lesson and the quiz
logout_clear_all(ss) ==
    [ss EXCEPT !.logged_in = FALSE, !.user_data = NoUser,
               !.current_lesson = NoLesson, !.lesson_topic = "",
               !.quiz_questions = <<>>, !.quiz_answers = <<>>,
               !.quiz_submitted = FALSE]

\* src/app.py:558-561 without the st.rerun()
logout(ss) ==
    [ss EXCEPT !.logged_in = FALSE, !.user_data = NoUser]

\* st.radio starts at its first option (index 0); the values of a form reach
\* the script only with the form's submit button
DefaultSelection(questions) == [i \in 1..Len(questions) |-> 1]

\* src/app.py:572-583: every radio's value is stored as the answer;
\* selection[i] is the position of the option the radio of question i returns
RecordAnswers(ss, selection) ==
    [ss EXCEPT !.quiz_answers =
        [i \in 1..Len(ss.quiz_questions) |->
            ss.quiz_questions[i].options[selection[i]]]]

\* src/app.py:570-589: the form
quiz_form(ss, utable, ptable, now, ev) ==
    IF ev.widget = "submit_quiz"
    THEN Result([RecordAnswers(ss, ev.selection) EXCEPT !.quiz_submitted = TRUE],
                utable, ptable, now, BlankOut("lesson"), TRUE)
    ELSE Result(RecordAnswers(ss, DefaultSelection(ss.quiz_questions)),
                utable, ptable, now, BlankOut("lesson"), FALSE)

\* src/app.py:611-619: the row saved and the result shown for correct_count
GradedView(ss, utable, ptable, now, correct_count) ==
    Result(ss, utable,
           IF HasId(ss.user_data)
           THEN save_user_progress(ptable, ss.user_data.id, ss.lesson_topic,
                                   correct_count)
           ELSE ptable,
           now,
           [BlankOut("lesson") EXCEPT
               !.score = correct_count,
               !.verdict = FinalResult(correct_count),
               !.calls = IF HasId(ss.user_data) THEN <<"save_user_progress">>
                         ELSE <<>>],
           FALSE)

\* src/app.py:621-635: the two buttons below the graded view r
GradedButtons(r, ev) ==
    IF ev.widget = "retake"
    THEN [r EXCEPT !.ss = retake_quiz(@), !.rerun = TRUE]
    ELSE IF ev.widget = "new_topic"
    THEN [r EXCEPT !.ss = new_topic(@), !.rerun = TRUE]
    ELSE r

\* src/app.py:591-635: the graded view
quiz_results(ss, utable, ptable, now, ev) ==
    GradedButtons(
        GradedView(ss, utable, ptable, now,
                   CountCorrect(ss.quiz_questions, ss.quiz_answers,
                                Len(ss.quiz_questions))),
        ev)

\* src/app.py:563-635
display_quiz(ss, utable, ptable, now, ev) ==
    IF ~ss.quiz_submitted
    THEN quiz_form(ss, utable, ptable, now, ev)
    ELSE quiz_results(ss, utable, ptable, now, ev)

\* src/app.py:541-545: the session takes what generate_quiz returned as g
StoreQuiz(ss, utable, ptable, now, g) ==
    Result([ss EXCEPT !.quiz_questions = g.questions],
           utable, ptable, now,
           [BlankOut("lesson") EXCEPT !.msgs = g.errors,
                                      !.calls = <<"generate_quiz">>],
           TRUE)

\* src/app.py:538-547: the quiz section of the lesson view
quiz_section(ss, utable, ptable, now, ev) ==
    IF ss.quiz_questions = <<>>
    THEN IF ev.widget = "take_quiz"
         THEN StoreQuiz(ss, utable, ptable, now, generate_quiz(ev.response))
         ELSE Result(ss, utable, ptable, now, BlankOut("lesson"), FALSE)
    ELSE display_quiz(ss, utable, ptable, now, ev)

\* src/app.py:527-536: the question form, run before the quiz section q
QuestionForm(q, ev) ==
    IF ev.widget = "ask" /\ ev.question # ""
    THEN [q EXCEPT !.out.calls = <<"answer_question">> \o @]
    ELSE q

\* src/app.py:549-561: the two buttons at the foot of the lesson view, not
\* reached when the quiz section q ended in st.rerun()
Navigation(q, ev) ==
    IF q.rerun THEN q
    ELSE IF ev.widget = "choose_new_topic"
    THEN [q EXCEPT !.ss = choose_new_topic(@), !.rerun = TRUE]
    ELSE IF ev.widget = "logout"
    THEN [q EXCEPT !.ss = logout(@), !.rerun = TRUE]
    ELSE q

\* src/app.py:509-561
lesson_page(ss, utable, ptable, now, ev) ==
    IF ~Truthy(ss.current_lesson)
    THEN topic_selection_page(ss, utable, ptable, now, ev)
    ELSE Navigation(
            QuestionForm(quiz_section(ss, utable, ptable, now, ev), ev), ev)

\* src/app.py:637-645
main(ss, utable, ptable, now, ev) ==
    IF ~ss.logged_in
    THEN login_page(ss, utable, ptable, now, ev)
    ELSE lesson_page(ss, utable, ptable, now, ev)

(* ------------------------------- state -------------------------------- *)

VARIABLES
    session_state,   \* st.session_state of the one browser session followed
    users,           \* the users table
    user_progress,   \* the user_progress table, in insertion order
    clock,           \* CURRENT_TIMESTAMP
    pc,              \* "idle": a page is shown; "rerun": st.rerun() was called
    event,           \* the widget event (and backend answer) of the last run
    out,             \* what the last run showed and called
    submit_count,    \* history: clicks on Submit Quiz so far
    registered,      \* history: what each successful registration was given
    submitter,       \* history: the account id active at the last Submit Quiz
    reg              \* SpecConc: create_user calls in flight, per client

vars == <<session_state, users, user_progress, clock, pc, event, out,
          submit_count, registered, submitter, reg>>

Clients == 1..MaxClients

IdleReg == [stage |-> "idle", email |-> <<>>, password |-> <<>>, age |-> 0,
            salt |-> "", user_id |-> 0]

Init ==
    /\ session_state = InitialSession
    /\ users = <<>>
    /\ user_progress = <<>>
    /\ clock = 1
    /\ pc = "idle"
    /\ event = [widget |-> "none"]
    /\ out = BlankOut("login")
    /\ submit_count = 0
    /\ registered = <<>>
    /\ submitter = 0
    /\ reg = [c \in Clients |-> IdleReg]

\* the selections the modelled user makes: option a for the first k
\* questions and option b for the others
Selections(questions) ==
    {s \in {[i \in 1..Len(questions) |-> IF i <= k THEN a ELSE b] :
                k \in SplitPoints, a \in PickOptions, b \in PickOptions} :
        \A i \in 1..Len(questions) : s[i] <= Len(questions[i].options)}

\* the part of an event that the user chose (the salt is drawn by bcrypt)
UserEvent(ev) ==
    IF ev.widget = "register"
    THEN [widget |-> ev.widget, email |-> ev.email, password |-> ev.password,
          confirm |-> ev.confirm, age |-> ev.age]
    ELSE ev

\* one run of the script on the widget event ev
Run(ev) ==
    \E r \in {main(session_state, users, user_progress, clock, ev)} :
    /\ Len(r.progress) <= MaxProgress
    /\ r.now <= MaxClock + 1
    /\ session_state' = r.ss
    /\ users' = r.users
    /\ user_progress' = r.progress
    /\ clock' = r.now
    /\ pc' = IF r.rerun THEN "rerun" ELSE "idle"
    /\ event' = UserEvent(ev)
    /\ out' = r.out
    /\ submit_count' = IF ev.widget = "submit_quiz" THEN submit_count + 1
                       ELSE submit_count
    /\ registered' = IF ev.widget = "register" /\ r.out.user_id # 0
                     THEN Append(registered,
                                 [email |-> ev.email, password |-> ev.password,
                                  age |-> ev.age, user_id |-> r.out.user_id])
                     ELSE registered
    /\ submitter' = IF ev.widget = "submit_quiz" THEN session_state.user_data.id
                    ELSE submitter
    /\ UNCHANGED reg

OnLoginPage == pc = "idle" /\ ~session_state.logged_in
OnTopicPage ==
    pc = "idle" /\ session_state.logged_in /\ ~Truthy(session_state.current_lesson)
OnLessonPage ==
    pc = "idle" /\ session_state.logged_in /\ Truthy(session_state.current_lesson)

\* the Login button of the login form
LoginSubmit ==
    /\ OnLoginPage
    /\ \E f \in LoginForms :
          Run([widget |-> "login", email |-> f.email, password |-> f.password])

\* the salt bcrypt.gensalt() draws in the session followed: one per address,
\* so that the two accounts are stored under different salts (SpecConc draws
\* from all of Salts)
SaltDrawn(email) == IF email = EmailB THEN "s2" ELSE "s1"

\* the Create Account button of the registration form
RegisterSubmit ==
    /\ OnLoginPage
    /\ \E f \in RegisterForms :
          Run([widget |-> "register", email |-> f.email, password |-> f.password,
               confirm |-> f.confirm, age |-> f.age, salt |-> SaltDrawn(f.email)])

\* a topic button, or Start Custom Lesson with the text typed
StartLesson ==
    /\ OnTopicPage
    /\ \E f \in LessonForms :
          Run([widget |-> "start_lesson", topic |-> f.topic, lesson |-> f.lesson])

\* the Get Answer button of the question form
AskQuestion ==
    /\ OnLessonPage
    /\ \E q \in QuestionInputs : Run([widget |-> "ask", question |-> q])

\* Take Quiz to Continue
TakeQuiz ==
    /\ OnLessonPage
    /\ session_state.quiz_questions = <<>>
    /\ \E r \in Responses : Run([widget |-> "take_quiz", response |-> r])

\* Submit Quiz
SubmitQuiz ==
    /\ OnLessonPage
    /\ session_state.quiz_questions # <<>>
    /\ ~session_state.quiz_submitted
    /\ \E s \in Selections(session_state.quiz_questions) :
          Run([widget |-> "submit_quiz", selection |-> s])

\* Retake Quiz
RetakeQuiz ==
    /\ OnLessonPage
    /\ session_state.quiz_questions # <<>>
    /\ session_state.quiz_submitted
    /\ Run([widget |-> "retake"])

\* New Topic, on the graded view
NewTopic ==
    /\ OnLessonPage
    /\ session_state.quiz_questions # <<>>
    /\ session_state.quiz_submitted
    /\ Run([widget |-> "new_topic"])

\* Choose New Topic, at the foot of the lesson view
ChooseNewTopic ==
    /\ OnLessonPage
    /\ Run([widget |-> "choose_new_topic"])

\* Logout, at the foot of the lesson view
Logout ==
    /\ OnLessonPage
    /\ Run([widget |-> "logout"])

\* the run that st.rerun() starts: the script from the top, no widget event
Rerun ==
    /\ pc = "rerun"
    /\ Run([widget |-> "none"])

Next ==
    \/ LoginSubmit
    \/ RegisterSubmit
    \/ StartLesson
    \/ AskQuestion
    \/ TakeQuiz
    \/ SubmitQuiz
    \/ RetakeQuiz
    \/ NewTopic
    \/ ChooseNewTopic
    \/ Logout
    \/ Rerun

Spec == Init /\ [][Next]_vars

(* ---------------------- concurrent registration ---------------------- *)

\* the forms that pass the checks of src/app.py:294-301, and a second
\* registration of EmailA with another password
ConcForms ==
    {f \in RegisterForms :
        /\ f.email # <<>> /\ f.password # <<>> /\ f.confirm # <<>>
        /\ validate_email(f.email)
        /\ Len(f.password) >= MinPasswordLen
        /\ f.password = f.confirm}
    \cup {[email |-> EmailA, password |-> PwB, confirm |-> PwB, age |-> 30]}

\* src/app.py:70-75: client c enters create_user and hashes the password
ConcBegin(c) ==
    /\ reg[c].stage \in {"idle", "done"}
    /\ \E f \in ConcForms, s \in Salts :
          reg' = [reg EXCEPT ![c] =
                    [stage |-> "hashed", email |-> f.email,
                     password |-> f.password, age |-> f.age, salt |-> s,
                     user_id |-> 0]]
    /\ UNCHANGED <<session_state, users, user_progress, clock, pc, event, out,
                   submit_count, registered, submitter>>

\* src/app.py:76-86: the INSERT and commit of client c, one SQLite statement
ConcInsert(c) ==
    /\ reg[c].stage = "hashed"
    /\ \E r \in {create_user(users, reg[c].email, reg[c].password, reg[c].age,
                             reg[c].salt)} :
          /\ users' = r.users
          /\ reg' = [reg EXCEPT ![c].stage = "done", ![c].user_id = r.user_id]
          /\ registered' =
                IF r.user_id # 0
                THEN Append(registered,
                            [email |-> reg[c].email, password |-> reg[c].password,
                             age |-> reg[c].age, user_id |-> r.user_id])
                ELSE registered
    /\ UNCHANGED <<session_state, user_progress, clock, pc, event, out,
                   submit_count, submitter>>

NextConc == \E c \in Clients : ConcBegin(c) \/ ConcInsert(c)

SpecConc == Init /\ [][NextConc]_vars

(* ------------------------------ properties ---------------------------- *)

\* whether the run that produced o called f
Called(o, f) == \E i \in 1..Len(o.calls) : o.calls[i] = f

QuizCleared ==
    /\ session_state.quiz_questions = <<>>
    /\ session_state.quiz_answers = <<>>
    /\ ~session_state.quiz_submitted

\* C1: every quiz submission appends exactly one ProgressRecord, however
\* often the graded view is rendered again: the table never holds more rows
\* than there were submissions.
C1_OneRecordPerSubmission == Len(user_progress) <= submit_count

\* C2: Retake clears the answer mapping and the submitted flag and leaves
\* the questions, the lesson topic and the lesson text as they were, without
\* a quiz generation request; the run that follows shows the same questions,
\* again without a request.
C2_RetakeKeepsQuiz ==
    [][/\ event'.widget = "retake" =>
            /\ session_state'.quiz_answers = <<>>
            /\ ~session_state'.quiz_submitted
            /\ session_state'.quiz_questions = session_state.quiz_questions
            /\ session_state'.quiz_questions # <<>>
            /\ session_state'.lesson_topic = session_state.lesson_topic
            /\ session_state'.current_lesson = session_state.current_lesson
            /\ ~Called(out', "generate_quiz")
       /\ (event.widget = "retake" /\ pc = "rerun") =>
            /\ session_state'.quiz_questions = session_state.quiz_questions
            /\ ~session_state'.quiz_submitted
            /\ out'.view = "lesson"
            /\ ~Called(out', "generate_quiz")]_vars

\* C2 witness: Retake was clicked on a graded quiz and its rerun is pending
C2_Witness ==
    /\ event.widget = "retake"
    /\ pc = "rerun"
    /\ Len(session_state.quiz_questions) = NumQuestions
    /\ Called(out, "save_user_progress")

\* C3: every new-topic transition (New Topic, Choose New Topic, starting a
\* lesson) leaves no quiz items, no answers and a false submitted flag, the
\* two buttons also no lesson; so the topic-selection view is never shown
\* with quiz state of an earlier topic.
C3_NewTopicDiscardsQuiz ==
    /\ (pc = "rerun" /\ event.widget \in {"new_topic", "choose_new_topic"}) =>
          /\ QuizCleared
          /\ session_state.current_lesson = NoLesson
          /\ session_state.lesson_topic = ""
    /\ (pc = "rerun" /\ event.widget = "start_lesson") => QuizCleared
    /\ out.view = "topics" => QuizCleared

\* the quiz of the data model: NumQuestions items of NumOptions options and
\* a correct index within them
WellFormedQuiz(questions) ==
    /\ Len(questions) = 8
    /\ \A i \in 1..Len(questions) :
          /\ Len(questions[i].options) = 4
          /\ questions[i].correct \in 0..3

\* C4: a non-empty quiz in the session has exactly 8 items, each of exactly
\* 4 options and a correct index in 0..3, whatever the backend returned.
C4_QuizWellFormed ==
    session_state.quiz_questions # <<>> =>
        WellFormedQuiz(session_state.quiz_questions)

\* the three ways generation fails: the remote call raises, the text is not
\* a JSON document, or the document is not an object holding a well-formed
\* quiz under "questions"
InvalidStructure(v) ==
    ~(v.type = "object" /\ v.has_questions /\ WellFormedQuiz(v.questions))

GenerationFails(response) ==
    \/ response.raised
    \/ ~Decodes(ExtractJson(response.content))
    \/ InvalidStructure(JsonOf(Strip(ExtractJson(response.content))[1]))

\* C5: when quiz generation fails, the adapter returns no questions and
\* reports an error; the session's quiz stays empty and the lesson topic and
\* text stay as they were.
C5_FailedGenerationLeavesNoQuiz ==
    [][(event'.widget = "take_quiz" /\ GenerationFails(event'.response)) =>
            /\ session_state'.quiz_questions = <<>>
            /\ out'.msgs # <<>>
            /\ session_state'.lesson_topic = session_state.lesson_topic
            /\ session_state'.current_lesson = session_state.current_lesson]_vars

\* the indices whose recorded answer is the option at the correct index
Matches(questions, answers) ==
    {i \in 1..Len(questions) :
        /\ i \in DOMAIN answers
        /\ answers[i] = questions[i].options[questions[i].correct + 1]}

\* C6: the correct-count a graded view shows is the number of indices whose
\* recorded answer equals the option at the item's correct index, between 0
\* and the number of items; a later render of the same answers shows the
\* same count, and no render of the graded view requests a quiz.
C6_Grading ==
    [][out'.score # -1 =>
            /\ out'.score = Cardinality(Matches(session_state.quiz_questions,
                                                session_state.quiz_answers))
            /\ out'.score >= 0
            /\ out'.score <= Len(session_state.quiz_questions)
            /\ out.score # -1 => out'.score = out.score
            /\ ~Called(out', "generate_quiz")]_vars

\* C6 witness: the graded view rendered once more, after a lesson question
C6_Witness ==
    /\ event.widget = "ask"
    /\ out.score = 3
    /\ session_state.quiz_submitted
    /\ Len(user_progress) = 2

\* C7: the graded view says "mastered" exactly when the correct-count is at
\* least 5 (so 5 is mastered and 4 is needs review), and the progress history
\* marks a stored score by the same threshold.
C7_PassMark ==
    /\ out.score # -1 =>
          /\ out.verdict = "mastered" <=> out.score >= 5
          /\ out.verdict = "needs review" <=> out.score < 5
    /\ \A i \in 1..Len(out.history) :
          out.history[i].mark = "green" <=> out.history[i].score >= 5

\* C7 witness: a quiz graded with 5 correct answers, shown as mastered
C7_Witness ==
    /\ out.score = 5
    /\ out.verdict = "mastered"
    /\ Len(session_state.quiz_questions) = 8

UniqueEmails ==
    \A i, j \in 1..Len(users) : users[i].email = users[j].email => i = j

\* C8: a registration whose email is already in the table gets the
\* DuplicateEmail outcome and changes no row, and under every interleaving
\* of concurrent registrations the table holds at most one row per email.
C8_UniqueEmail ==
    /\ []UniqueEmails
    /\ [][\A c \in Clients :
            (/\ reg[c].stage = "hashed"
             /\ reg'[c].stage = "done"
             /\ \E i \in 1..Len(users) : users[i].email = reg[c].email)
            => (reg'[c].user_id = 0 /\ users' = users)]_vars

\* C8 witness: two clients registered the same email concurrently; one got
\* an identifier and the other the DuplicateEmail outcome
C8_Witness ==
    \E c, d \in Clients :
        /\ reg[c].stage = "done" /\ reg[c].user_id # 0
        /\ reg[d].stage = "done" /\ reg[d].user_id = 0
        /\ reg[c].email = reg[d].email
        /\ reg[c].password # reg[d].password

\* a form the registration accepts: no empty field, a well-formed email, a
\* password of at least 6 characters, equal to its confirmation
ValidRegistration(ev) ==
    /\ ev.email # <<>> /\ ev.password # <<>> /\ ev.confirm # <<>>
    /\ validate_email(ev.email)
    /\ Len(ev.password) >= 6
    /\ ev.password = ev.confirm

\* C9: a valid registration with an email not in the table succeeds with a
\* new identifier; and every later login with the email and password of a
\* successful registration succeeds, with that account's identifier and the
\* age given at registration, and sets the last-login timestamp.
C9_RegisterThenAuthenticate ==
    [][/\ (/\ event'.widget = "register"
           /\ ValidRegistration(event')
           /\ \A i \in 1..Len(users) : users[i].email # event'.email)
          => /\ out'.user_id # 0
             /\ \A i \in 1..Len(users) : users[i].id # out'.user_id
             /\ out'.msgs = <<MsgCreated>>
       /\ event'.widget = "login" =>
            \A k \in 1..Len(registered) :
                (/\ registered[k].email = event'.email
                 /\ registered[k].password = event'.password)
                => /\ out'.msgs = <<MsgLoginOk>>
                   /\ session_state'.logged_in
                   /\ session_state'.user_data =
                        [id |-> registered[k].user_id,
                         email |-> registered[k].email,
                         age |-> registered[k].age]
                   /\ users'[registered[k].user_id].last_login = clock
                   /\ users'[registered[k].user_id].last_login # 0]_vars

\* C9 witness: the second account registered is logged in, after another
\* login, with an age other than the first account's
C9_Witness ==
    /\ event.widget = "login"
    /\ session_state.logged_in
    /\ session_state.user_data.id = 2
    /\ Len(users) = 2
    /\ users[1].age # users[2].age
    /\ users[1].last_login # 0
    /\ users[2].last_login # 0

\* the one outcome of a refused login
InvalidCredentials ==
    [BlankOut("login") EXCEPT !.msgs = <<MsgInvalid>>,
                              !.calls = <<"authenticate_user">>]

\* C10: a login with an unregistered email and a login with a registered
\* email but another password than the one registered end in the same
\* outcome, and neither changes a row of users (no last-login timestamp),
\* the authentication flag or the active account.
C10_InvalidCredentials ==
    [][(/\ event'.widget = "login"
        /\ event'.email # <<>> /\ event'.password # <<>>
        /\ validate_email(event'.email)
        /\ \/ \A k \in 1..Len(registered) : registered[k].email # event'.email
           \/ \E k \in 1..Len(registered) :
                /\ registered[k].email = event'.email
                /\ registered[k].password # event'.password)
       => /\ out' = InvalidCredentials
          /\ users' = users
          /\ session_state' = session_state
          /\ pc' = "idle"]_vars

\* C10 witness: a login with a registered email and a wrong password was
\* refused, after an earlier successful login of that account
C10_Witness ==
    /\ event.widget = "login"
    /\ out = InvalidCredentials
    /\ \E k \in 1..Len(registered) :
          /\ registered[k].email = event.email
          /\ registered[k].password # event.password
          /\ users[registered[k].user_id].last_login # 0

\* the forms the validation refuses: an empty field or an ill-formed email,
\* and for a registration also a password of fewer than 6 characters or one
\* that differs from its confirmation
FailsValidation(ev) ==
    \/ /\ ev.widget = "login"
       /\ \/ ev.email = <<>> \/ ev.password = <<>>
          \/ ~validate_email(ev.email)
    \/ /\ ev.widget = "register"
       /\ \/ ev.email = <<>> \/ ev.password = <<>> \/ ev.confirm = <<>>
          \/ ~validate_email(ev.email)
          \/ Len(ev.password) < 6
          \/ ev.password # ev.confirm

ValidationMessages == {MsgFill, MsgEmail, MsgShort, MsgMismatch}

\* C11: a registration or login that fails validation is refused before the
\* stores are touched: no row of users is created or changed, neither
\* create_user nor authenticate_user is called, a validation message is
\* shown, and the session stays logged out and as it was.
C11_ValidationBeforeStore ==
    [][FailsValidation(event') =>
            /\ users' = users
            /\ user_progress' = user_progress
            /\ registered' = registered
            /\ out'.calls = <<>>
            /\ Len(out'.msgs) = 1
            /\ out'.msgs[1] \in ValidationMessages
            /\ ~session_state'.logged_in
            /\ session_state' = session_state
            /\ clock' = clock
            /\ pc' = "idle"]_vars

\* C11 witness: a registration with a password of 3 characters was refused
\* while the table already held an account
C11_Witness ==
    /\ event.widget = "register"
    /\ Len(event.password) = 3
    /\ out.msgs = <<MsgShort>>
    /\ out.calls = <<>>
    /\ Len(users) >= 1
    /\ ~session_state.logged_in

\* C12: the run of the Logout button sets the authentication flag to false
\* and clears the active account and leaves every other field of the session
\* (lesson topic, lesson text, quiz items, answer mapping, submitted flag) and
\* the users table as they were; and as long as the session is logged out,
\* every run shows the login/registration view, which only a successful
\* authenticate ends.
C12_LogoutFrame ==
    [][/\ event'.widget = "logout" =>
            /\ ~session_state'.logged_in
            /\ session_state'.user_data = NoUser
            /\ session_state'.lesson_topic = session_state.lesson_topic
            /\ session_state'.current_lesson = session_state.current_lesson
            /\ session_state'.quiz_questions = session_state.quiz_questions
            /\ session_state'.quiz_answers = session_state.quiz_answers
            /\ session_state'.quiz_submitted = session_state.quiz_submitted
            /\ users' = users
            /\ pc' = "rerun"
       /\ ~session_state.logged_in =>
            /\ out'.view = "login"
            /\ session_state'.logged_in =>
                  /\ event'.widget = "login"
                  /\ Called(out', "authenticate_user")
                  /\ out'.msgs = <<MsgLoginOk>>]_vars

\* C12 witness: Logout was clicked below a graded quiz of 8 items; the
\* session is logged out and still holds the lesson and the quiz
C12_Witness ==
    /\ event.widget = "logout"
    /\ pc = "rerun"
    /\ ~session_state.logged_in
    /\ session_state.user_data = NoUser
    /\ session_state.quiz_submitted
    /\ Len(session_state.quiz_questions) = 8
    /\ Truthy(session_state.current_lesson)

\* C13: every row of user_progress belongs to the account that was active
\* when the answers of the graded quiz were submitted: a run appends rows
\* only under the account that clicked Submit Quiz, also after a logout and
\* a login as another account in the same session.
C13_RecordOwnedBySubmitter ==
    [][\A i \in (Len(user_progress) + 1)..Len(user_progress') :
            user_progress'[i].user_id = submitter']_vars

====
